---- MODULE Spec2Model ----
(***************************************************************************)
(* SimpleVector<Type> of simple-vector/simple_vector.h over a heap of      *)
(* ArrayPtr buffers.  Two vector objects, "a" and "b", are constructed,    *)
(* mutated, copied, moved, swapped and destroyed.  A buffer is a sequence  *)
(* of slots; C++ slot index i is sequence index i + 1.  Type is taken to   *)
(* be a trivially copyable type such as int, so a moved-from slot keeps    *)
(* its value.                                                              *)
(*                                                                         *)
(* Undefined behaviour ends the run: the step that commits it sets fault   *)
(* and shows one of the outcomes the build can produce (a crash after the  *)
(* in-bounds writes, or the overrun landing in another live buffer); no    *)
(* operation runs after a fault.                                           *)
(*                                                                         *)
(* Spec is the program of calls on "a" and "b".  SpecRead applies At and   *)
(* the comparison operators to drawn vectors, and SpecOom calls the        *)
(* growing operations when the free store is exhausted.                    *)
(***************************************************************************)
EXTENDS Integers, Sequences, FiniteSets, TLC

\* Number of slots the heap can hold at the end of an operation.
MaxSlots == 3

\* Largest capacity of a vector drawn as the operand of a read-only operation.
MaxLen == 3

\* The element type and its value-initialised value Type().
Type == {0, 1}
DefaultValue == 0

\* The two vector objects of the program.
Objs == {"a", "b"}

\* ArrayPtr: the null pointer, the content of a slot nobody has written,
\* and the addresses the allocator hands out.
Null == 0
Indet == -1
BufIds == 1..3

\* oom: the free store is exhausted, operator new[] throws std::bad_alloc.
VARIABLES vec, alive, heap, fault, ndebug, oom, call

vars == <<vec, alive, heap, fault, ndebug, oom, call>>

\* The exceptions an operation can leave by.
Exceptions == {"bad_alloc", "out_of_range"}

Max(x, y) == IF x >= y THEN x ELSE y

Min(x, y) == IF x <= y THEN x ELSE y

\* size_ = 0, capacity_ = 0 and a null ArrayPtr: the default member initialisers.
EmptyVector == [size_ |-> 0, capacity_ |-> 0, raw_ptr_ |-> Null]

(***************************************************************************)
(* ArrayPtr<Type>                                                          *)
(***************************************************************************)
NewId(h) == CHOOSE i \in BufIds \ DOMAIN h : \A j \in BufIds \ DOMAIN h : i <= j

\* ArrayPtr(n): no allocation for n = 0, otherwise n slots nobody has
\* written, or std::bad_alloc when the free store is exhausted.
ArrayPtrNew(h, n) ==
  IF n = 0
    THEN [ptr |-> Null, heap |-> h, thrown |-> "none"]
    ELSE IF oom
      THEN [ptr |-> Null, heap |-> h, thrown |-> "bad_alloc"]
      ELSE LET id == NewId(h)
           IN [ptr |-> id, heap |-> (id :> [i \in 1..n |-> Indet]) @@ h,
               thrown |-> "none"]

\* ~ArrayPtr(): delete[] of the owned buffer.
ArrayPtrDelete(h, p) == [i \in DOMAIN h \ {p} |-> h[i]]

\* The slots behind a pointer (none behind nullptr).
Buf(h, p) == IF p \in DOMAIN h THEN h[p] ELSE <<>>

\* Number of slots actually allocated behind a vector's raw_ptr_.
Allocated(h, sv) == Len(Buf(h, sv.raw_ptr_))

(***************************************************************************)
(* <algorithm>: the loops of std::fill, std::copy, std::move and           *)
(* std::move_backward over slot indices [first, last).                     *)
(***************************************************************************)
RECURSIVE StdFill(_, _, _, _)
StdFill(buf, first, last, value) ==
  IF first = last
    THEN buf
    ELSE StdFill([buf EXCEPT ![first + 1] = value], first + 1, last, value)

RECURSIVE StdCopy(_, _, _, _, _)
StdCopy(src, first, last, dst, d_first) ==
  IF first = last
    THEN dst
    ELSE StdCopy(src, first + 1, last,
                 [dst EXCEPT ![d_first + 1] = src[first + 1]], d_first + 1)

RECURSIVE StdMove(_, _, _, _)
StdMove(buf, first, last, d_first) ==
  IF first = last
    THEN buf
    ELSE StdMove([buf EXCEPT ![d_first + 1] = buf[first + 1]],
                 first + 1, last, d_first + 1)

RECURSIVE StdMoveBackward(_, _, _, _)
StdMoveBackward(buf, first, last, d_last) ==
  IF first = last
    THEN buf
    ELSE StdMoveBackward([buf EXCEPT ![d_last] = buf[last]],
                         first, last - 1, d_last - 1)

\* The buffer followed by the memory after it, up to n slots.
Pad(buf, n) == buf \o [i \in 1..(n - Len(buf)) |-> Indet]

\* The live range [begin(), end()) of a vector.
Live(h, sv) == SubSeq(Buf(h, sv.raw_ptr_), 1, sv.size_)

(***************************************************************************)
(* Results of an operation on one vector: the vector, the heap, the fault. *)
(***************************************************************************)
Res(sv, h, f) == [sv |-> sv, heap |-> h, fault |-> f]

\* Writing the image ext through raw_ptr_.  An image longer than the buffer
\* is a write past its end: the in-bounds part is stored and the overrun
\* either hits nothing the program looks at or lands in another live buffer.
Store(sv, h, ext) ==
  LET p == sv.raw_ptr_
      L == Allocated(h, sv)
  IN IF Len(ext) <= L
       THEN {Res(sv, IF p = Null THEN h ELSE [h EXCEPT ![p] = ext], "none")}
       ELSE IF p = Null
         THEN {Res(sv, h, "null_deref")}
         ELSE LET h1 == [h EXCEPT ![p] = SubSeq(ext, 1, L)]
                  spill == {ext[i] : i \in (L + 1)..Len(ext)} \ {Indet}
              IN {Res(sv, h1, "oob_write")} \cup
                 UNION {UNION {{Res(sv, [h1 EXCEPT ![q][j] = x], "oob_write")
                                 : x \in spill} : j \in 1..Len(h1[q])}
                         : q \in DOMAIN h1 \ {p}}

\* The statement that follows the writes (size_ = ..., ++size_) runs only
\* when the writes did not crash.
ThenSize(results, n) ==
  {IF r.fault = "none" THEN [r EXCEPT !.sv.size_ = n] ELSE r : r \in results}

\* assert(cond): aborts the program when cond is false, compiled out under NDEBUG.
AssertFails(nd, cond) == ~nd /\ ~cond

\* The conditions the member functions assert; pos = begin() + k.
SubscriptAssert(sv, index) == index < sv.size_

InsertAssert(sv, k) == k > 0 \/ k < sv.size_

PopBackAssert(sv) == sv.size_ = 0

EraseAssert(sv, k) == k > 0 \/ k < sv.size_

(***************************************************************************)
(* SimpleVector<Type>: the member functions, as functions of the vector    *)
(* and the heap.                                                           *)
(***************************************************************************)
\* swap that exchanges the buffers and the sizes and forgets the capacities.
swap_KeepCapacity(this, other) ==
  [this  |-> [size_ |-> other.size_, capacity_ |-> this.capacity_,
              raw_ptr_ |-> other.raw_ptr_],
   other |-> [size_ |-> this.size_, capacity_ |-> other.capacity_,
              raw_ptr_ |-> this.raw_ptr_]]

swap(this, other) ==
  [this  |-> [size_ |-> other.size_, capacity_ |-> other.capacity_,
              raw_ptr_ |-> other.raw_ptr_],
   other |-> [size_ |-> this.size_, capacity_ |-> this.capacity_,
              raw_ptr_ |-> this.raw_ptr_]]

\* Reserve that allocates the new buffer and forgets to move the elements.
Reserve_NoMove(sv, h, new_capacity) ==
  IF new_capacity >= sv.capacity_
    THEN LET new_items == ArrayPtrNew(h, new_capacity)
         IN IF new_items.thrown # "none"
              THEN Res(sv, h, new_items.thrown)
              ELSE Res([sv EXCEPT !.raw_ptr_ = new_items.ptr,
                                  !.capacity_ = new_capacity],
                       ArrayPtrDelete(new_items.heap, sv.raw_ptr_), "none")
    ELSE Res(sv, h, "none")

\* Reserve that sets capacity_ before it allocates the new buffer.
Reserve_CapacityFirst(sv, h, new_capacity) ==
  IF new_capacity >= sv.capacity_
    THEN LET grown == [sv EXCEPT !.capacity_ = new_capacity]
             new_items == ArrayPtrNew(h, new_capacity)
             moved == StdCopy(Buf(h, sv.raw_ptr_), 0, sv.size_,
                              Buf(new_items.heap, new_items.ptr), 0)
             h1 == IF new_items.ptr = Null
                     THEN new_items.heap
                     ELSE [new_items.heap EXCEPT ![new_items.ptr] = moved]
         IN IF new_items.thrown # "none"
              THEN Res(grown, h, new_items.thrown)
              ELSE Res([grown EXCEPT !.raw_ptr_ = new_items.ptr],
                       ArrayPtrDelete(h1, sv.raw_ptr_), "none")
    ELSE Res(sv, h, "none")

Reserve(sv, h, new_capacity) ==
  IF new_capacity >= sv.capacity_
    THEN LET new_items == ArrayPtrNew(h, new_capacity)
             moved == StdCopy(Buf(h, sv.raw_ptr_), 0, sv.size_,
                              Buf(new_items.heap, new_items.ptr), 0)
             h1 == IF new_items.ptr = Null
                     THEN new_items.heap
                     ELSE [new_items.heap EXCEPT ![new_items.ptr] = moved]
         IN IF new_items.thrown # "none"
              THEN Res(sv, h, new_items.thrown)
              ELSE Res([sv EXCEPT !.raw_ptr_ = new_items.ptr,
                                  !.capacity_ = new_capacity],
                       ArrayPtrDelete(h1, sv.raw_ptr_), "none")
    ELSE Res(sv, h, "none")

\* std::fill(begin() + size_, begin() + new_size, Type()).  With
\* new_size < size_ the range is inverted: a loop on n = last - first > 0
\* writes nothing, a loop on first != last runs off the end of the buffer.
FillTail(sv, h, new_size) ==
  LET buf == Buf(h, sv.raw_ptr_)
  IN IF sv.size_ <= new_size
       THEN Store(sv, h, StdFill(Pad(buf, new_size), sv.size_, new_size,
                                 DefaultValue))
       ELSE {Res(sv, h, "none")} \cup
            Store(sv, h, StdFill(Pad(buf, Len(buf) + 1), sv.size_,
                                 Len(buf) + 1, DefaultValue))

\* Resize that sets size_ and never grows the buffer.
Resize_NoReserve(sv, h, new_size) ==
  {Res([sv EXCEPT !.size_ = new_size], h, "none")}

Resize(sv, h, new_size) ==
  LET r == IF new_size <= sv.capacity_
             THEN Res(sv, h, "none")
             ELSE Reserve(sv, h, Max(new_size, 2 * sv.capacity_))
  IN IF r.fault # "none"
       THEN {r}
       ELSE ThenSize(FillTail(r.sv, r.heap, new_size), new_size)

\* raw_ptr_[index] = value
Assign(sv, h, index, value) ==
  Store(sv, h, [Pad(Buf(h, sv.raw_ptr_), index + 1) EXCEPT ![index + 1] = value])

\* operator[](index) used as v[index] = value
Subscript(sv, h, index, value, nd) ==
  IF AssertFails(nd, SubscriptAssert(sv, index))
    THEN {Res(sv, h, "assert")}
    ELSE Assign(sv, h, index, value)

\* At with the bound taken from capacity_ instead of size_.
At_CapacityCheck(sv, h, index) ==
  IF index >= sv.capacity_
    THEN [thrown |-> "out_of_range", ret |-> Indet]
    ELSE [thrown |-> "none", ret |-> Buf(h, sv.raw_ptr_)[index + 1]]

\* At(index): throws, or returns a reference to raw_ptr_[index]; ret is the
\* value read through the reference.
At(sv, h, index) ==
  IF index >= sv.size_
    THEN [thrown |-> "out_of_range", ret |-> Indet]
    ELSE [thrown |-> "none", ret |-> Buf(h, sv.raw_ptr_)[index + 1]]

\* Iterators: a pointer into the buffer behind raw_ptr_.
Iterator(sv, index) == [ptr |-> sv.raw_ptr_, index |-> index]

begin(sv) == Iterator(sv, 0)

end(sv) == Iterator(sv, sv.size_)

PushBack(sv, h, item) ==
  LET r == IF sv.size_ < sv.capacity_
             THEN Res(sv, h, "none")
             ELSE Reserve(sv, h, Max(1, 2 * sv.capacity_))
  IN IF r.fault # "none"
       THEN {r}
       ELSE ThenSize(Assign(r.sv, r.heap, sv.size_, item), sv.size_ + 1)

\* std::move_backward(&raw_ptr_[number_pos], end(), &raw_ptr_[size_ + 1])
ShiftRight(sv, h, number_pos) ==
  Store(sv, h, StdMoveBackward(Pad(Buf(h, sv.raw_ptr_), sv.size_ + 1),
                               number_pos, sv.size_, sv.size_ + 1))

VectorMove(sv, h, number_pos) ==
  LET shifted == IF sv.size_ < sv.capacity_
                   THEN ShiftRight(sv, h, number_pos)
                   ELSE IF sv.capacity_ = 0
                     THEN {Reserve(sv, h, 1)}
                     ELSE LET r == Reserve(sv, h, 2 * sv.capacity_)
                          IN IF r.fault # "none"
                               THEN {r}
                               ELSE ShiftRight(r.sv, r.heap, number_pos)
  IN ThenSize(shifted, sv.size_ + 1)

\* pos = begin() + k
Insert(sv, h, k, value, nd) ==
  IF AssertFails(nd, InsertAssert(sv, k))
    THEN {Res(sv, h, "assert")}
    ELSE UNION {IF r.fault = "none"
                  THEN Assign(r.sv, r.heap, k, value)
                  ELSE {r}
                : r \in VectorMove(sv, h, k)}

\* return &raw_ptr_[number_pos], in the vector Insert leaves.
InsertReturn(r, number_pos) == Iterator(r.sv, number_pos)

PopBack(sv, h, nd) ==
  IF AssertFails(nd, PopBackAssert(sv))
    THEN {Res(sv, h, "assert")}
    ELSE {Res([sv EXCEPT !.size_ = @ - 1], h, "none")}

\* Erase that takes one off size_ and moves no element.
Erase_NoShift(sv, h, k, nd) ==
  IF AssertFails(nd, EraseAssert(sv, k))
    THEN {Res(sv, h, "assert")}
    ELSE {Res([sv EXCEPT !.size_ = @ - 1], h, "none")}

\* pos = begin() + k, with k < size_
Erase(sv, h, k, nd) ==
  IF AssertFails(nd, EraseAssert(sv, k))
    THEN {Res(sv, h, "assert")}
    ELSE ThenSize(Store(sv, h, StdMove(Buf(h, sv.raw_ptr_), k + 1, sv.size_, k)),
                  sv.size_ - 1)

\* Iterator it = &raw_ptr_[std::distance(cbegin(), pos)]; ... return it;
EraseReturn(sv, k) == Iterator(sv, k)

\* Clear that gives up the capacity as well.
Clear_Release(sv) == [sv EXCEPT !.size_ = 0, !.capacity_ = 0]

Clear(sv) == [sv EXCEPT !.size_ = 0]

(***************************************************************************)
(* The comparison operators, with the loops of std::equal and              *)
(* std::lexicographical_compare over slot indices.                         *)
(***************************************************************************)
RECURSIVE StdEqual(_, _, _, _, _)
StdEqual(a, first1, last1, b, first2) ==
  IF first1 = last1
    THEN TRUE
    ELSE IF a[first1 + 1] # b[first2 + 1]
      THEN FALSE
      ELSE StdEqual(a, first1 + 1, last1, b, first2 + 1)

RECURSIVE StdLexicographicalCompare(_, _, _, _, _, _)
StdLexicographicalCompare(a, first1, last1, b, first2, last2) ==
  IF first1 = last1 \/ first2 = last2
    THEN first1 = last1 /\ first2 # last2
    ELSE IF a[first1 + 1] < b[first2 + 1]
      THEN TRUE
      ELSE IF b[first2 + 1] < a[first1 + 1]
        THEN FALSE
        ELSE StdLexicographicalCompare(a, first1 + 1, last1, b, first2 + 1, last2)

OperatorEq(lhs, rhs, h) ==
  IF lhs.size_ # rhs.size_
    THEN FALSE
    ELSE StdEqual(Buf(h, lhs.raw_ptr_), 0, lhs.size_, Buf(h, rhs.raw_ptr_), 0)

OperatorNe(lhs, rhs, h) == ~OperatorEq(lhs, rhs, h)

\* operator< that orders by size before it looks at the elements.
OperatorLt_SizeFirst(lhs, rhs, h) ==
  IF lhs.size_ # rhs.size_
    THEN lhs.size_ < rhs.size_
    ELSE StdLexicographicalCompare(Buf(h, lhs.raw_ptr_), 0, lhs.size_,
                                   Buf(h, rhs.raw_ptr_), 0, rhs.size_)

OperatorLt(lhs, rhs, h) ==
  StdLexicographicalCompare(Buf(h, lhs.raw_ptr_), 0, lhs.size_,
                            Buf(h, rhs.raw_ptr_), 0, rhs.size_)

OperatorLe(lhs, rhs, h) == ~OperatorLt(rhs, lhs, h)

OperatorGt(lhs, rhs, h) == OperatorLt(rhs, lhs, h)

OperatorGe(lhs, rhs, h) == ~OperatorLt(lhs, rhs, h)

(***************************************************************************)
(* Constructors and assignment.                                            *)
(***************************************************************************)
ReserveCtor(h, capacity_to_reserve) == Reserve(EmptyVector, h, capacity_to_reserve)

FillCtor(h, size, value) ==
  LET a == ArrayPtrNew(h, size)
      filled == StdFill(Buf(a.heap, a.ptr), 0, size, value)
  IN IF a.thrown # "none"
       THEN Res(EmptyVector, h, a.thrown)
       ELSE Res([size_ |-> size, capacity_ |-> size, raw_ptr_ |-> a.ptr],
                IF a.ptr = Null THEN a.heap ELSE [a.heap EXCEPT ![a.ptr] = filled],
                "none")

SizeCtor(h, size) == FillCtor(h, size, DefaultValue)

InitListCtor(h, init) ==
  LET a == ArrayPtrNew(h, Len(init))
      copied == StdCopy(init, 0, Len(init), Buf(a.heap, a.ptr), 0)
  IN IF a.thrown # "none"
       THEN Res(EmptyVector, h, a.thrown)
       ELSE Res([size_ |-> Len(init), capacity_ |-> Len(init), raw_ptr_ |-> a.ptr],
                IF a.ptr = Null THEN a.heap ELSE [a.heap EXCEPT ![a.ptr] = copied],
                "none")

\* Copy constructor that copies the pointer instead of the elements.
CopyCtor_Shallow(h, other) ==
  Res([size_ |-> other.size_, capacity_ |-> other.capacity_,
       raw_ptr_ |-> other.raw_ptr_], h, "none")

CopyCtor(h, other) ==
  LET a == ArrayPtrNew(h, other.size_)
      copied == StdCopy(Buf(h, other.raw_ptr_), 0, other.size_,
                        Buf(a.heap, a.ptr), 0)
  IN IF a.thrown # "none"
       THEN Res(EmptyVector, h, a.thrown)
       ELSE Res([size_ |-> other.size_, capacity_ |-> other.capacity_,
                 raw_ptr_ |-> a.ptr],
                IF a.ptr = Null THEN a.heap ELSE [a.heap EXCEPT ![a.ptr] = copied],
                "none")

\* A default-initialised vector swapped with other.
MoveCtor(other) == swap(EmptyVector, other)

\* operator=(const SimpleVector &rhs), this != &rhs: tmp(rhs); swap(tmp); ~tmp.
CopyAssign(this, h, rhs) ==
  LET tmp == CopyCtor(h, rhs)
      s == swap(this, tmp.sv)
  IN IF tmp.fault # "none"
       THEN Res(this, h, tmp.fault)
       ELSE Res(s.this, ArrayPtrDelete(tmp.heap, s.other.raw_ptr_), "none")

\* operator=(SimpleVector &&rhs), this != &rhs: tmp(std::move(rhs)); swap(tmp); ~tmp.
MoveAssign(this, h, rhs) ==
  LET m == MoveCtor(rhs)
      s == swap(this, m.this)
  IN [this |-> s.this, rhs |-> m.other,
      heap |-> ArrayPtrDelete(h, s.other.raw_ptr_)]

(***************************************************************************)
(* The program: calls of the public operations on the objects "a" and "b". *)
(* call records the call the last step made.                               *)
(***************************************************************************)
\* A call that returned nothing the model records.
Called(op, o, other) ==
  [op |-> op, obj |-> o, other |-> other, thrown |-> "none", ret |-> Indet]

\* A call that returned ret or left by the exception thrown.
Returned(op, o, other, thrown, ret) ==
  [op |-> op, obj |-> o, other |-> other, thrown |-> thrown, ret |-> ret]

\* The exception a result carries, and the fault it carries.
Thrown(r) == IF r.fault \in Exceptions THEN r.fault ELSE "none"

Fault(r) == IF r.fault \in Exceptions THEN "none" ELSE r.fault

RECURSIVE SlotsIn(_, _)
SlotsIn(h, ids) ==
  IF ids = {}
    THEN 0
    ELSE LET i == CHOOSE x \in ids : TRUE
         IN Len(h[i]) + SlotsIn(h, ids \ {i})

\* The heap has room for what the operation leaves allocated.
Fits(h) == SlotsIn(h, DOMAIN h) <= MaxSlots

\* Sequences of at most n elements of Type: the initializer lists.
Lists(n) == UNION {[1..k -> Type] : k \in 0..n}

Init ==
  /\ vec = [o \in Objs |-> EmptyVector]
  /\ alive = {}
  /\ heap = [i \in {} |-> <<>>]
  /\ fault = "none"
  /\ ndebug \in BOOLEAN
  /\ oom = FALSE
  /\ call = Called("start", "a", "a")

Running == fault = "none"

\* Addresses mean nothing to the program beyond their identity: every step
\* leaves the buffers numbered in the order "a", "b" own them, followed by
\* the buffers nobody owns.  A pointer to a released buffer stays dangling.
Dangling == Cardinality(BufIds) + 1

Key(v, id) ==
  IF id = v["a"].raw_ptr_ THEN 0 ELSE IF id = v["b"].raw_ptr_ THEN 1 ELSE 1 + id

Ren(v, h, id) == 1 + Cardinality({j \in DOMAIN h : Key(v, j) < Key(v, id)})

CompactHeap(v, h) ==
  [n \in {Ren(v, h, i) : i \in DOMAIN h} |->
     h[CHOOSE i \in DOMAIN h : Ren(v, h, i) = n]]

CompactVec(v, h) ==
  [o \in Objs |->
     [v[o] EXCEPT !.raw_ptr_ = IF @ = Null THEN Null
                               ELSE IF @ \in DOMAIN h THEN Ren(v, h, @)
                               ELSE Dangling]]

\* The state a step leaves: the vectors v over the heap h.
Commit(v, h) ==
  /\ Fits(h)
  /\ vec' = CompactVec(v, h)
  /\ heap' = CompactHeap(v, h)

\* The step of a constructor of object o; a constructor that throws
\* constructs no object.
Construct(o, r, c) ==
  /\ Commit(IF Thrown(r) = "none" THEN [vec EXCEPT ![o] = r.sv] ELSE vec, r.heap)
  /\ fault' = Fault(r)
  /\ alive' = IF Thrown(r) = "none" THEN alive \cup {o} ELSE alive
  /\ call' = [c EXCEPT !.thrown = Thrown(r)]
  /\ UNCHANGED <<ndebug, oom>>

\* The step of a member function of object o.
Apply(o, r, c) ==
  /\ Commit([vec EXCEPT ![o] = r.sv], r.heap)
  /\ fault' = Fault(r)
  /\ call' = [c EXCEPT !.thrown = Thrown(r)]
  /\ UNCHANGED <<alive, ndebug, oom>>

CallDefaultCtor(o) ==
  /\ Running /\ o \notin alive
  /\ Construct(o, Res(EmptyVector, heap, "none"), Called("DefaultCtor", o, o))

CallReserveCtor(o, n) ==
  /\ Running /\ o \notin alive
  /\ Construct(o, ReserveCtor(heap, n), Called("ReserveCtor", o, o))

CallSizeCtor(o, n) ==
  /\ Running /\ o \notin alive
  /\ Construct(o, SizeCtor(heap, n), Called("SizeCtor", o, o))

CallFillCtor(o, n, value) ==
  /\ Running /\ o \notin alive
  /\ Construct(o, FillCtor(heap, n, value), Called("FillCtor", o, o))

CallInitListCtor(o, init) ==
  /\ Running /\ o \notin alive
  /\ Construct(o, InitListCtor(heap, init), Called("InitListCtor", o, o))

CallCopyCtor(o, other) ==
  /\ Running /\ o \notin alive /\ other \in alive
  /\ Construct(o, CopyCtor(heap, vec[other]), Called("CopyCtor", o, other))

CallMoveCtor(o, other) ==
  /\ Running /\ o \notin alive /\ other \in alive
  /\ LET m == MoveCtor(vec[other])
     IN Commit([vec EXCEPT ![o] = m.this, ![other] = m.other], heap)
  /\ alive' = alive \cup {o}
  /\ call' = Called("MoveCtor", o, other)
  /\ UNCHANGED <<fault, ndebug, oom>>

\* Copy assignment without the test this != &rhs.
CallCopyAssign_NoSelfCheck(o, rhs) ==
  /\ Running /\ o \in alive /\ rhs \in alive
  /\ Apply(o, CopyAssign(vec[o], heap, vec[rhs]), Called("CopyAssign", o, rhs))

CallCopyAssign(o, rhs) ==
  /\ Running /\ o \in alive /\ rhs \in alive
  /\ Apply(o, IF o # rhs THEN CopyAssign(vec[o], heap, vec[rhs])
                         ELSE Res(vec[o], heap, "none"),
           Called("CopyAssign", o, rhs))

CallMoveAssign(o, rhs) ==
  /\ Running /\ o \in alive /\ rhs \in alive
  /\ IF o # rhs
       THEN LET m == MoveAssign(vec[o], heap, vec[rhs])
            IN Commit([vec EXCEPT ![o] = m.this, ![rhs] = m.rhs], m.heap)
       ELSE UNCHANGED <<vec, heap>>
  /\ call' = Called("MoveAssign", o, rhs)
  /\ UNCHANGED <<alive, fault, ndebug, oom>>

CallSwap(o, other) ==
  /\ Running /\ o \in alive /\ other \in alive
  /\ LET s == swap(vec[o], vec[other])
     IN Commit([vec EXCEPT ![o] = s.this, ![other] = s.other], heap)
  /\ call' = Called("swap", o, other)
  /\ UNCHANGED <<alive, fault, ndebug, oom>>

CallClear(o) ==
  /\ Running /\ o \in alive
  /\ Apply(o, Res(Clear(vec[o]), heap, "none"), Called("Clear", o, o))

CallResize(o, n) ==
  /\ Running /\ o \in alive
  /\ \E r \in Resize(vec[o], heap, n) : Apply(o, r, Called("Resize", o, o))

CallReserve(o, n) ==
  /\ Running /\ o \in alive
  /\ Apply(o, Reserve(vec[o], heap, n), Called("Reserve", o, o))

CallPushBack(o, item) ==
  /\ Running /\ o \in alive
  /\ \E r \in PushBack(vec[o], heap, item) :
       Apply(o, r, Called("PushBack", o, o))

\* Insert(begin() + k, value) with begin() <= pos <= end()
CallInsert(o, k, value) ==
  /\ Running /\ o \in alive
  /\ k <= vec[o].size_
  /\ \E r \in Insert(vec[o], heap, k, value, ndebug) :
       Apply(o, r, Called("Insert", o, o))

\* PopBack() on a non-empty vector
CallPopBack(o) ==
  /\ Running /\ o \in alive
  /\ vec[o].size_ > 0
  /\ \E r \in PopBack(vec[o], heap, ndebug) :
       Apply(o, r, Called("PopBack", o, o))

\* Erase(begin() + k) with begin() <= pos < end()
CallErase(o, k) ==
  /\ Running /\ o \in alive
  /\ k < vec[o].size_
  /\ \E r \in Erase(vec[o], heap, k, ndebug) :
       Apply(o, r, Called("Erase", o, o))

\* v[index] = value with index < size_
CallSubscript(o, index, value) ==
  /\ Running /\ o \in alive
  /\ index < vec[o].size_
  /\ \E r \in Subscript(vec[o], heap, index, value, ndebug) :
       Apply(o, r, Called("Subscript", o, o))

\* ~SimpleVector(): the ArrayPtr member releases the buffer.
CallDestroy(o) ==
  /\ Running /\ o \in alive
  /\ Commit([vec EXCEPT ![o] = EmptyVector], ArrayPtrDelete(heap, vec[o].raw_ptr_))
  /\ alive' = alive \ {o}
  /\ call' = Called("Destroy", o, o)
  /\ UNCHANGED <<fault, ndebug, oom>>

Next ==
  \/ \E o \in Objs : CallDefaultCtor(o)
  \/ \E o \in Objs, n \in 0..MaxSlots : CallReserveCtor(o, n)
  \/ \E o \in Objs, n \in 0..MaxSlots : CallSizeCtor(o, n)
  \/ \E o \in Objs, n \in 0..MaxSlots, value \in Type : CallFillCtor(o, n, value)
  \/ \E o \in Objs, init \in Lists(MaxSlots) : CallInitListCtor(o, init)
  \/ \E o \in Objs, other \in Objs : CallCopyCtor(o, other)
  \/ \E o \in Objs, other \in Objs : CallMoveCtor(o, other)
  \/ \E o \in Objs, rhs \in Objs : CallCopyAssign(o, rhs)
  \/ \E o \in Objs, rhs \in Objs : CallMoveAssign(o, rhs)
  \/ \E o \in Objs, other \in Objs : CallSwap(o, other)
  \/ \E o \in Objs : CallClear(o)
  \/ \E o \in Objs, n \in 0..MaxSlots : CallResize(o, n)
  \/ \E o \in Objs, n \in 0..MaxSlots : CallReserve(o, n)
  \/ \E o \in Objs, item \in Type : CallPushBack(o, item)
  \/ \E o \in Objs, k \in 0..MaxSlots, value \in Type : CallInsert(o, k, value)
  \/ \E o \in Objs : CallPopBack(o)
  \/ \E o \in Objs, k \in 0..MaxSlots : CallErase(o, k)
  \/ \E o \in Objs, index \in 0..MaxSlots, value \in Type : CallSubscript(o, index, value)
  \/ \E o \in Objs : CallDestroy(o)

Spec == Init /\ [][Next]_vars

(***************************************************************************)
(* The read-only operations, At and the comparison operators, applied to   *)
(* two vectors drawn from the states a vector can be in: size_ live        *)
(* elements in a buffer of capacity_ slots whose slots at and beyond size_ *)
(* were never written or hold stale values.                                *)
(***************************************************************************)
Tails(n) ==
  IF n = 0 THEN {<<>>} ELSE {[i \in 1..n |-> Indet], [i \in 1..n |-> 1]}

Drawn ==
  UNION {UNION {{[size_ |-> s, buf |-> live \o tail]
                  : live \in [1..s -> Type], tail \in Tails(c - s)}
                : s \in 0..c}
          : c \in 0..MaxLen}

\* The vectors "a" and "b" over the buffers of da and db, and their heap.
DrawnPtr(o, da, db) ==
  IF o = "a"
    THEN IF da.buf = <<>> THEN Null ELSE 1
    ELSE IF db.buf = <<>> THEN Null ELSE IF da.buf = <<>> THEN 1 ELSE 2

DrawnVec(da, db) ==
  [o \in Objs |->
     LET d == IF o = "a" THEN da ELSE db
     IN [size_ |-> d.size_, capacity_ |-> Len(d.buf),
         raw_ptr_ |-> DrawnPtr(o, da, db)]]

DrawnHeap(da, db) ==
  [i \in {DrawnPtr(o, da, db) : o \in Objs} \ {Null} |->
     IF i = DrawnPtr("a", da, db) THEN da.buf ELSE db.buf]

InitRead ==
  /\ \E da \in Drawn, db \in Drawn :
       /\ vec = DrawnVec(da, db)
       /\ heap = DrawnHeap(da, db)
  /\ alive = Objs
  /\ fault = "none"
  /\ ndebug = FALSE
  /\ oom = FALSE
  /\ call = Called("start", "a", "a")

\* v.At(index): nothing but the outcome of the call changes.
CallAt(o, index) ==
  /\ Running /\ o \in alive
  /\ LET r == At(vec[o], heap, index)
     IN call' = Returned("At", o, o, r.thrown, r.ret)
  /\ UNCHANGED <<vec, alive, heap, fault, ndebug, oom>>

\* lhs op rhs for a comparison operator that returned ret.
Compare(op, lhs, rhs, ret) ==
  /\ Running /\ lhs \in alive /\ rhs \in alive
  /\ call' = Returned(op, lhs, rhs, "none", ret)
  /\ UNCHANGED <<vec, alive, heap, fault, ndebug, oom>>

CallOperatorEq(lhs, rhs) ==
  Compare("OperatorEq", lhs, rhs, OperatorEq(vec[lhs], vec[rhs], heap))

CallOperatorNe(lhs, rhs) ==
  Compare("OperatorNe", lhs, rhs, OperatorNe(vec[lhs], vec[rhs], heap))

CallOperatorLt(lhs, rhs) ==
  Compare("OperatorLt", lhs, rhs, OperatorLt(vec[lhs], vec[rhs], heap))

CallOperatorLe(lhs, rhs) ==
  Compare("OperatorLe", lhs, rhs, OperatorLe(vec[lhs], vec[rhs], heap))

CallOperatorGt(lhs, rhs) ==
  Compare("OperatorGt", lhs, rhs, OperatorGt(vec[lhs], vec[rhs], heap))

CallOperatorGe(lhs, rhs) ==
  Compare("OperatorGe", lhs, rhs, OperatorGe(vec[lhs], vec[rhs], heap))

NextRead ==
  \/ \E o \in Objs, index \in 0..MaxLen : CallAt(o, index)
  \/ \E lhs \in Objs, rhs \in Objs : CallOperatorEq(lhs, rhs)
  \/ \E lhs \in Objs, rhs \in Objs : CallOperatorNe(lhs, rhs)
  \/ \E lhs \in Objs, rhs \in Objs : CallOperatorLt(lhs, rhs)
  \/ \E lhs \in Objs, rhs \in Objs : CallOperatorLe(lhs, rhs)
  \/ \E lhs \in Objs, rhs \in Objs : CallOperatorGt(lhs, rhs)
  \/ \E lhs \in Objs, rhs \in Objs : CallOperatorGe(lhs, rhs)

SpecRead == InitRead /\ [][NextRead]_vars

(***************************************************************************)
(* The operations that allocate, called on drawn vectors when the free     *)
(* store is exhausted.                                                     *)
(***************************************************************************)
InitOom ==
  /\ \E da \in Drawn, db \in Drawn :
       /\ Fits(DrawnHeap(da, db))
       /\ vec = DrawnVec(da, db)
       /\ heap = DrawnHeap(da, db)
  /\ alive = Objs
  /\ fault = "none"
  /\ ndebug \in BOOLEAN
  /\ oom = TRUE
  /\ call = Called("start", "a", "a")

NextOom ==
  \/ \E o \in Objs, n \in 0..(MaxSlots + 1) : CallResize(o, n)
  \/ \E o \in Objs, n \in 0..(MaxSlots + 1) : CallReserve(o, n)
  \/ \E o \in Objs, item \in Type : CallPushBack(o, item)
  \/ \E o \in Objs, k \in 0..MaxSlots, value \in Type : CallInsert(o, k, value)

SpecOom == InitOom /\ [][NextOom]_vars

(***************************************************************************)
(* Properties.                                                             *)
(***************************************************************************)
\* The live elements of object o, now and after the step.
Elems(o) == Live(heap, vec[o])

ElemsNext(o) == Live(heap', vec'[o])

\* C1: in every reachable state capacity() of every vector is the number of
\* slots allocated in its backing buffer.
C1_CapacityIsAllocated ==
  \A o \in alive : vec[o].capacity_ = Allocated(heap, vec[o])

\* C2: size() <= capacity() in every reachable state.
C2_SizeWithinCapacity ==
  \A o \in Objs : vec[o].size_ <= vec[o].capacity_

\* A Resize has grown a vector to at least two elements, filling its capacity.
C2_Witness ==
  /\ call.op = "Resize" /\ fault = "none"
  /\ vec[call.obj].size_ >= 2
  /\ vec[call.obj].size_ = vec[call.obj].capacity_

\* C3: a copy-constructed vector has the size of its source and a capacity
\* equal to that size, whatever the capacity of the source.
C3_CopyCapacityIsSize ==
  [][call'.op = "CopyCtor" =>
       LET o == call'.obj
           other == call'.other
       IN /\ vec'[o].size_ = vec[other].size_
          /\ vec'[o].capacity_ = vec[other].size_]_vars

\* C4: after Resize(n) the size is n, the elements below min(old size, n)
\* keep their values, the elements in [old size, n) hold Type(), and a
\* shrinking Resize writes no slot.
C4_ResizePostcondition ==
  [][call'.op = "Resize" =>
       \A n \in 0..MaxSlots :
         CallResize(call'.obj, n) =>
           LET o == call'.obj
               s == vec[o].size_
           IN /\ fault' = "none"
              /\ vec'[o].size_ = n
              /\ \A i \in 1..Min(s, n) : ElemsNext(o)[i] = Elems(o)[i]
              /\ \A i \in (s + 1)..n : ElemsNext(o)[i] = DefaultValue
              /\ n < s =>
                   Buf(heap', vec'[o].raw_ptr_) = Buf(heap, vec[o].raw_ptr_)]_vars

\* C5: PopBack on a non-empty vector fails no assertion, takes one off the
\* size and leaves the capacity and the remaining elements as they were.
C5_PopBackOnNonEmpty ==
  [][call'.op = "PopBack" =>
       LET o == call'.obj
       IN /\ fault' = "none"
          /\ vec'[o].size_ = vec[o].size_ - 1
          /\ vec'[o].capacity_ = vec[o].capacity_
          /\ ElemsNext(o) = SubSeq(Elems(o), 1, vec[o].size_ - 1)]_vars

\* C6: every PushBack, from any state of the vector, adds one to the size,
\* leaves the pushed value at index old size and keeps every element that
\* was live at its index.
C6_PushBackAppends ==
  [][call'.op = "PushBack" =>
       \A item \in Type :
         CallPushBack(call'.obj, item) =>
           LET o == call'.obj
           IN /\ fault' = "none"
              /\ vec'[o].size_ = vec[o].size_ + 1
              /\ ElemsNext(o) = Append(Elems(o), item)]_vars

\* Every outcome of one mutating call on the vector sv: an element write,
\* PushBack, Insert, Erase, Resize or Clear.
Mutations(sv, h, nd) ==
  UNION {PushBack(sv, h, x) : x \in Type}
    \cup UNION {Insert(sv, h, k, x, nd) : k \in 0..sv.size_, x \in Type}
    \cup UNION {Erase(sv, h, k, nd) : k \in 0..(sv.size_ - 1)}
    \cup UNION {Resize(sv, h, n) : n \in 0..MaxSlots}
    \cup UNION {Assign(sv, h, i, x) : i \in 0..(sv.size_ - 1), x \in Type}
    \cup {Res(Clear(sv), h, "none")}

\* C7: a copy, by construction or by assignment, equals its source, and no
\* later mutation of the copy changes the live elements of the source, nor
\* a mutation of the source those of the copy.
C7_CopyIsIndependent ==
  [][(call'.op \in {"CopyCtor", "CopyAssign"} /\ call'.obj # call'.other) =>
       LET o == call'.obj
           other == call'.other
       IN /\ vec'[o].size_ = vec'[other].size_
          /\ ElemsNext(o) = ElemsNext(other)
          /\ \A r \in Mutations(vec'[o], heap', ndebug) :
               Live(r.heap, vec'[other]) = ElemsNext(other)
          /\ \A r \in Mutations(vec'[other], heap', ndebug) :
               Live(r.heap, vec'[o]) = ElemsNext(o)]_vars

\* C8: move construction and move assignment from another vector leave the
\* source with size 0, capacity 0 and no buffer, and the destination with
\* the size, capacity, buffer and live elements the source had.
C8_MoveTransfers ==
  [][(call'.op \in {"MoveCtor", "MoveAssign"} /\ call'.obj # call'.other) =>
       LET o == call'.obj
           rhs == call'.other
       IN /\ vec'[rhs] = EmptyVector
          /\ vec'[o].size_ = vec[rhs].size_
          /\ vec'[o].capacity_ = vec[rhs].capacity_
          /\ ElemsNext(o) = Elems(rhs)
          /\ Buf(heap', vec'[o].raw_ptr_) = Buf(heap, vec[rhs].raw_ptr_)]_vars

\* A move has handed over a vector of two elements with spare capacity.
C8_Witness ==
  /\ call.op \in {"MoveCtor", "MoveAssign"}
  /\ call.obj # call.other
  /\ vec[call.other] = EmptyVector
  /\ vec[call.obj].size_ >= 2
  /\ vec[call.obj].capacity_ > vec[call.obj].size_
  /\ Elems(call.obj)[1] # Elems(call.obj)[2]

\* C9: Reserve(n) never lowers the capacity and never changes the size or a
\* live element; with n >= capacity the capacity becomes n, with
\* n < capacity nothing changes.
C9_ReserveKeepsContents ==
  [][call'.op = "Reserve" =>
       \A n \in 0..MaxSlots :
         CallReserve(call'.obj, n) =>
           LET o == call'.obj
           IN /\ fault' = "none"
              /\ vec'[o].capacity_ >= vec[o].capacity_
              /\ vec'[o].size_ = vec[o].size_
              /\ ElemsNext(o) = Elems(o)
              /\ n >= vec[o].capacity_ => vec'[o].capacity_ = n
              /\ n < vec[o].capacity_ => vec' = vec /\ heap' = heap]_vars

\* A Reserve has moved two live elements into a larger buffer.
C9_Witness ==
  /\ call.op = "Reserve"
  /\ vec[call.obj].size_ >= 2
  /\ vec[call.obj].capacity_ > vec[call.obj].size_
  /\ Buf(heap, vec[call.obj].raw_ptr_)[vec[call.obj].capacity_] = Indet
  /\ Elems(call.obj)[1] # Elems(call.obj)[2]

\* C10: from every state, Insert(p, v) followed by Erase(p), for every
\* position begin <= p <= end, completes and restores the live sequence and
\* the size.
C10_InsertEraseRoundTrip ==
  \A o \in alive :
    \A k \in 0..vec[o].size_, v \in Type :
      fault = "none" =>
        \A r1 \in Insert(vec[o], heap, k, v, ndebug) :
          /\ r1.fault = "none"
          /\ \A r2 \in Erase(r1.sv, r1.heap, k, ndebug) :
               /\ r2.fault = "none"
               /\ r2.sv.size_ = vec[o].size_
               /\ Live(r2.heap, r2.sv) = Elems(o)

\* C11: from every state, Insert(begin() + k, v) with 0 <= k <= size completes,
\* adds one to the size, leaves old[0..k) ++ <<v>> ++ old[k..size) as the live
\* sequence, and returns an iterator to index k of the buffer the vector now
\* has, where v is.
C11_InsertPostcondition ==
  \A o \in alive :
    \A k \in 0..vec[o].size_, v \in Type :
      fault = "none" =>
        \A r \in Insert(vec[o], heap, k, v, ndebug) :
          LET old == Elems(o)
              it == InsertReturn(r, k)
          IN /\ r.fault = "none"
             /\ r.sv.size_ = vec[o].size_ + 1
             /\ Live(r.heap, r.sv) =
                  SubSeq(old, 1, k) \o <<v>> \o SubSeq(old, k + 1, Len(old))
             /\ it.ptr = r.sv.raw_ptr_ /\ it.index = k
             /\ Buf(r.heap, it.ptr)[it.index + 1] = v

\* The heap h with every slot at or beyond size_ of the buffer of sv set to x.
Restale(sv, h, x) ==
  IF sv.raw_ptr_ \in DOMAIN h
    THEN [h EXCEPT ![sv.raw_ptr_] =
            [i \in DOMAIN @ |-> IF i > sv.size_ THEN x ELSE @[i]]]
    ELSE h

\* C12: from every state, Erase(begin() + k) on a non-empty vector with
\* 0 <= k < size completes, leaves old[0..k) ++ old[k+1..size), takes one off
\* the size, keeps the capacity, depends on no slot at or beyond the old size
\* and writes none, and returns an iterator to index k, which is end() when
\* the last element was erased.
C12_ErasePostcondition ==
  \A o \in alive :
    \A k \in 0..(vec[o].size_ - 1) :
      fault = "none" =>
        \A r \in Erase(vec[o], heap, k, ndebug) :
          LET old == Elems(o)
              s == vec[o].size_
              it == EraseReturn(vec[o], k)
          IN /\ r.fault = "none"
             /\ r.sv.size_ = s - 1
             /\ r.sv.capacity_ = vec[o].capacity_
             /\ Live(r.heap, r.sv) = SubSeq(old, 1, k) \o SubSeq(old, k + 2, s)
             /\ \A x \in Type \cup {Indet} :
                  \A r2 \in Erase(vec[o], Restale(vec[o], heap, x), k, ndebug) :
                    Live(r2.heap, r2.sv) = Live(r.heap, r.sv)
             /\ \A i \in (s + 1)..Allocated(heap, vec[o]) :
                  Buf(r.heap, r.sv.raw_ptr_)[i] = Buf(heap, vec[o].raw_ptr_)[i]
             /\ it = Iterator(r.sv, k)
             /\ k = s - 1 => it = end(r.sv)

\* An Erase has left two different elements in a vector with a spare slot.
C12_Witness ==
  /\ call.op = "Erase" /\ fault = "none"
  /\ vec[call.obj].size_ >= 2
  /\ vec[call.obj].capacity_ > vec[call.obj].size_
  /\ Elems(call.obj)[1] # Elems(call.obj)[2]

\* C13: At(index) throws out_of_range exactly when index >= size(), also for
\* a slot below capacity() that is not live; below size() it returns the
\* element; and a call of At, failing or not, changes no vector.
C13_AtOutOfRange ==
  [][call'.op = "At" =>
       \A index \in 0..MaxLen :
         CallAt(call'.obj, index) =>
           LET o == call'.obj
           IN /\ (call'.thrown = "out_of_range") <=> (index >= vec[o].size_)
              /\ index < vec[o].size_ =>
                   call'.thrown = "none" /\ call'.ret = Elems(o)[index + 1]
              /\ vec' = vec /\ heap' = heap /\ fault' = fault]_vars

\* At has thrown on a non-empty vector whose slot at index size() is
\* allocated and holds a stale value.
C13_Witness ==
  /\ call.op = "At" /\ call.thrown = "out_of_range"
  /\ vec[call.obj].size_ >= 1
  /\ vec[call.obj].size_ < vec[call.obj].capacity_
  /\ Buf(heap, vec[call.obj].raw_ptr_)[vec[call.obj].size_ + 1] = 1

\* C15: when the allocation of the new buffer fails, Reserve, Resize,
\* PushBack and Insert leave by std::bad_alloc with the vector and the heap
\* as they were; a call that needs a new buffer does not return normally.
C15_BadAllocLeavesState ==
  [][call'.op \in {"Reserve", "Resize", "PushBack", "Insert"} =>
       LET o == call'.obj
           full == vec[o].size_ >= vec[o].capacity_
       IN /\ call'.thrown = "bad_alloc" =>
               vec' = vec /\ heap' = heap /\ fault' = "none"
          /\ (call'.op = "PushBack" /\ full) => call'.thrown = "bad_alloc"
          /\ (call'.op = "Insert" /\ full) =>
               call'.thrown = "bad_alloc" \/ fault' = "assert"
          /\ call'.op = "Reserve" =>
               \A n \in 1..(MaxSlots + 1) :
                 (CallReserve(o, n) /\ n >= vec[o].capacity_) =>
                   call'.thrown = "bad_alloc"
          /\ call'.op = "Resize" =>
               \A n \in 1..(MaxSlots + 1) :
                 (CallResize(o, n) /\ n > vec[o].capacity_) =>
                   call'.thrown = "bad_alloc"]_vars

\* A growing call on a full vector of two different elements has thrown.
C15_Witness ==
  /\ call.op \in {"PushBack", "Insert"} /\ call.thrown = "bad_alloc"
  /\ vec[call.obj].size_ >= 2
  /\ vec[call.obj].size_ = vec[call.obj].capacity_
  /\ Elems(call.obj)[1] # Elems(call.obj)[2]

\* s sorts before t in the lexicographic order: they agree on i elements,
\* and there s ends and t goes on, or s has the smaller element.
LexLess(s, t) ==
  \E i \in 0..Min(Len(s), Len(t)) :
    /\ SubSeq(s, 1, i) = SubSeq(t, 1, i)
    /\ \/ i = Len(s) /\ i < Len(t)
       \/ i < Len(s) /\ i < Len(t) /\ s[i + 1] < t[i + 1]

\* C17: a == b returns whether the sizes match and the live elements are
\* pairwise equal, a < b whether the live range of a sorts before that of b
\* lexicographically (a strict prefix first), and a <= b, a > b, a >= b,
\* a != b return !(b < a), b < a, !(a < b), !(a == b); no slot at or beyond
\* size() has a say.
C17_ComparisonOperators ==
  LET l == Elems(call.obj)
      r == Elems(call.other)
  IN /\ call.op = "OperatorEq" =>
          call.ret = (Len(l) = Len(r) /\ \A i \in 1..Len(l) : l[i] = r[i])
     /\ call.op = "OperatorNe" =>
          call.ret = ~(Len(l) = Len(r) /\ \A i \in 1..Len(l) : l[i] = r[i])
     /\ call.op = "OperatorLt" => call.ret = LexLess(l, r)
     /\ call.op = "OperatorLe" => call.ret = ~LexLess(r, l)
     /\ call.op = "OperatorGt" => call.ret = LexLess(r, l)
     /\ call.op = "OperatorGe" => call.ret = ~LexLess(l, r)

\* a < b has returned true for a vector a of two elements that is a strict
\* prefix of b, where the stale slot of a after its last element is larger
\* than the element of b at that index.
C17_Witness ==
  /\ call.op = "OperatorLt" /\ call.ret = TRUE
  /\ Len(Elems(call.obj)) >= 2
  /\ Len(Elems(call.other)) = Len(Elems(call.obj)) + 1
  /\ SubSeq(Elems(call.other), 1, Len(Elems(call.obj))) = Elems(call.obj)
  /\ vec[call.obj].capacity_ > vec[call.obj].size_
  /\ Buf(heap, vec[call.obj].raw_ptr_)[vec[call.obj].size_ + 1] = 1
  /\ Elems(call.other)[vec[call.obj].size_ + 1] = 0

\* C14: with assertions enabled, every call outside its precondition fails
\* its assertion and changes nothing: operator[] with index >= size, Insert
\* at a position beyond end(), Erase at a position at or beyond end() (also
\* on an empty vector), and PopBack on an empty vector.
C14_AssertionsCatchViolations ==
  (~ndebug /\ fault = "none") =>
    \A o \in alive :
      LET sv == vec[o]
          aborted == {Res(sv, heap, "assert")}
      IN /\ \A index \in sv.size_..(MaxSlots + 1), value \in Type :
              /\ AssertFails(ndebug, SubscriptAssert(sv, index))
              /\ Subscript(sv, heap, index, value, ndebug) = aborted
         /\ sv.size_ = 0 =>
              /\ AssertFails(ndebug, PopBackAssert(sv))
              /\ PopBack(sv, heap, ndebug) = aborted
         /\ \A k \in sv.size_..(MaxSlots + 1) :
              /\ AssertFails(ndebug, EraseAssert(sv, k))
              /\ Erase(sv, heap, k, ndebug) = aborted
         /\ \A k \in (sv.size_ + 1)..(MaxSlots + 1), value \in Type :
              /\ AssertFails(ndebug, InsertAssert(sv, k))
              /\ Insert(sv, heap, k, value, ndebug) = aborted

\* The buffers the live vectors own.
Owned == {vec[o].raw_ptr_ : o \in alive} \ {Null}

\* C16: no two live vectors own the same buffer, every allocated buffer is
\* owned by a live vector (none is leaked), every owned buffer is allocated
\* (none was released while owned, so none is released twice), and a
\* destroyed or moved-from vector owns none.
C16_ExclusiveOwnership ==
  /\ \A o1 \in alive, o2 \in alive :
       (o1 # o2 /\ vec[o1].raw_ptr_ # Null) => vec[o1].raw_ptr_ # vec[o2].raw_ptr_
  /\ DOMAIN heap = Owned
  /\ \A o \in Objs \ alive : vec[o].raw_ptr_ = Null

\* A copy assignment between two vectors has left each with its own buffer.
C16_Witness ==
  /\ call.op = "CopyAssign" /\ call.obj # call.other
  /\ vec[call.obj].raw_ptr_ # Null /\ vec[call.other].raw_ptr_ # Null
  /\ vec[call.obj].raw_ptr_ # vec[call.other].raw_ptr_
  /\ Cardinality(DOMAIN heap) = 2

\* The outcomes of PushBack of each element of items, in order, from each
\* of the results rs.
RECURSIVE PushAll(_, _)
PushAll(rs, items) ==
  IF Len(items) = 0
    THEN rs
    ELSE PushAll(UNION {IF r.fault = "none"
                          THEN PushBack(r.sv, r.heap, Head(items))
                          ELSE {r}
                        : r \in rs},
                 Tail(items))

\* C18: from every state, Clear() leaves size 0 and the capacity and the
\* buffer as they were, and none of the next capacity() PushBack calls
\* changes the buffer pointer, the capacity or the set of allocated buffers;
\* when they complete, the pushed values are the live elements.
C18_ClearKeepsCapacity ==
  \A o \in alive :
    fault = "none" =>
      LET c == Clear(vec[o])
      IN /\ c.size_ = 0
         /\ c.capacity_ = vec[o].capacity_
         /\ c.raw_ptr_ = vec[o].raw_ptr_
         /\ \A items \in [1..c.capacity_ -> Type] :
              \A r \in PushAll({Res(c, heap, "none")}, items) :
                /\ r.sv.raw_ptr_ = vec[o].raw_ptr_
                /\ r.sv.capacity_ = vec[o].capacity_
                /\ DOMAIN r.heap = DOMAIN heap
                /\ r.fault = "none" =>
                     /\ r.sv.size_ = vec[o].capacity_
                     /\ \A i \in 1..Len(items) : Live(r.heap, r.sv)[i] = items[i]

\* A Clear has emptied a vector of capacity two or more whose buffer still
\* holds an element value.
C18_Witness ==
  /\ call.op = "Clear"
  /\ vec[call.obj].size_ = 0
  /\ vec[call.obj].capacity_ >= 2
  /\ Buf(heap, vec[call.obj].raw_ptr_)[1] = 1

\* C19: from every state, PushBack and Insert leave the capacity as it was
\* when size < capacity and otherwise make it 1 if it was 0 and twice what
\* it was if not; Resize(n) makes it max(n, 2 * capacity) when n > capacity
\* and leaves it as it was when n <= capacity.
C19_GrowthPolicy ==
  \A o \in alive :
    fault = "none" =>
      LET sv == vec[o]
          cap == sv.capacity_
          grown == IF sv.size_ < cap THEN cap ELSE IF cap = 0 THEN 1 ELSE 2 * cap
      IN /\ \A item \in Type :
              \A r \in PushBack(sv, heap, item) : r.sv.capacity_ = grown
         /\ \A k \in 0..sv.size_, value \in Type :
              \A r \in Insert(sv, heap, k, value, ndebug) : r.sv.capacity_ = grown
         /\ \A n \in 0..MaxSlots :
              \A r \in Resize(sv, heap, n) :
                r.sv.capacity_ = IF n > cap THEN Max(n, 2 * cap) ELSE cap

\* C20: an assignment of a vector to itself, by copy or by move, changes
\* nothing; a copy assignment from another vector leaves the size, the
\* capacity and the elements of the source as they were, makes the
\* destination compare equal to the source, and releases the buffer the
\* destination had.
C20_Assignment ==
  [][call'.op \in {"CopyAssign", "MoveAssign"} =>
       LET o == call'.obj
           rhs == call'.other
           r == CopyAssign(vec[o], heap, vec[rhs])
       IN /\ o = rhs => vec' = vec /\ heap' = heap /\ fault' = fault
          /\ (call'.op = "CopyAssign" /\ o # rhs) =>
               /\ fault' = "none"
               /\ vec'[rhs].size_ = vec[rhs].size_
               /\ vec'[rhs].capacity_ = vec[rhs].capacity_
               /\ ElemsNext(rhs) = Elems(rhs)
               /\ OperatorEq(vec'[o], vec'[rhs], heap')
               /\ vec[o].raw_ptr_ # Null => vec[o].raw_ptr_ \notin DOMAIN r.heap
               /\ DOMAIN heap' = {vec'[x].raw_ptr_ : x \in alive'} \ {Null}]_vars

\* A vector of two different elements and spare capacity has been assigned
\* to itself.
C20_Witness ==
  /\ call.op \in {"CopyAssign", "MoveAssign"} /\ call.obj = call.other
  /\ vec[call.obj].size_ >= 2
  /\ vec[call.obj].capacity_ > vec[call.obj].size_
  /\ Elems(call.obj)[1] # Elems(call.obj)[2]

====
